---- MODULE Spec2Model ----
(***************************************************************************)
(* Model of the btc-mining-forecast pipeline (src/src/main.py) and of the  *)
(* retrying HTTP helpers (src/src/data_fetch.py).                          *)
(*                                                                         *)
(* Five state machines share this module, each with its own specification: *)
(*   SpecForecast  forecast_with_xgb, the recursive forecasting loop       *)
(*   SpecTrain     create_features / dropna / train_xgb_model              *)
(*   SpecShares    pivot -> Others -> shares -> HHI -> daily resample      *)
(*   SpecDaily     hhi_series.resample("D").mean().ffill()                 *)
(*   SpecHttp      http_get_text / http_get_json                           *)
(* A specification leaves the variables of the other machines idle.  The  *)
(* definitions marked "fault variant" are plausible slips of the code; a   *)
(* property is sensitive to the code when it fails with one put in.        *)
(*                                                                         *)
(* Time stamps are integers counted in ticks, TicksPerDay ticks to a day,  *)
(* so that a time stamp need not fall on midnight and timedelta.days is a  *)
(* real floor.  Series values are non-negative integers; NaN is pandas'     *)
(* missing value.  An HHI value is an exact fraction [num, den].           *)
(***************************************************************************)
EXTENDS Integers, Sequences, FiniteSets, TLC

VARIABLES
  \* forecast_with_xgb
  series, end_date, forecast_series, last_date, forecast_days, i,
  features, pred, preds, fpc,
  \* create_features / train_xgb_model
  t_series, t_start, feat_df, train_result, tpc,
  \* pools -> HHI
  pools_ts, pools_df, pivot, distribution_df, shares, hhi_series, hhi_daily,
  spc,
  \* http_get_text / http_get_json
  h_fn, max_retries, backoff_seconds, attempt, requests, sleeps, outcomes,
  last, h_result, hpc

fvars == <<series, end_date, forecast_series, last_date, forecast_days, i,
           features, pred, preds, fpc>>
tvars == <<t_series, t_start, feat_df, train_result, tpc>>
svars == <<pools_ts, pools_df, pivot, distribution_df, shares, hhi_series,
           hhi_daily, spc>>
hvars == <<h_fn, max_retries, backoff_seconds, attempt, requests, sleeps,
           outcomes, last, h_result, hpc>>
vars == <<fvars, tvars, svars, hvars>>

(***************************************************************************)
(* Bounds of the model.                                                    *)
(***************************************************************************)
TicksPerDay == 2
MaxLen == 31
MaxHorizon == 3
NumPreds == 2

\* pandas' missing value, and Python's None: series values and time stamps are
\* never negative, so a negative number stands for "no value".
NaN == 0 - 1
None == "None"
EmptySeries == [index |-> <<>>, values |-> <<>>]

Max(a, b) == IF a >= b THEN a ELSE b

(***************************************************************************)
(* Input series: a gap-free daily index starting at tick t0, and values    *)
(* that are either all different ("ramp") or all equal ("flat").           *)
(***************************************************************************)
Shapes == {"ramp", "flat"}

ShapeValue(shape, j) == IF shape = "ramp" THEN j ELSE 50

DailySeries(t0, n, shape) ==
  [index  |-> [j \in 1..n |-> t0 + (j - 1) * TicksPerDay],
   values |-> [j \in 1..n |-> ShapeValue(shape, j)]]

\* What model.predict may return: the booster is opaque, any of these values.
PredValues == {900 + k : k \in 0..(NumPreds - 1)}

(***************************************************************************)
(* forecast_with_xgb (main.py 159-187)                                     *)
(***************************************************************************)
\* timedelta.days: whole days, rounded towards minus infinity.
\* (Fault variant: rounds up to the next whole day.)
DaysRoundUp(td) == (td + TicksPerDay - 1) \div TicksPerDay
Days(td) == td \div TicksPerDay

\* next_date = last_date + timedelta(days=i + 1)
\* (Fault variant: timedelta(days=i).)
NextDateNoOffset(ld, k) == ld + k * TicksPerDay
NextDate(ld, k) == ld + (k + 1) * TicksPerDay

\* values.iloc[k] for a negative k: counted from the end.
Iloc(values, k) == values[Len(values) + k + 1]

\* lagK = forecast_series.iloc[-K] if len(forecast_series) >= K else lag1
\* (Fault variant: > in place of >=.)
LagStrict(values, k) ==
  IF Len(values) > k THEN Iloc(values, -k) ELSE Iloc(values, -1)
Lag(values, k) ==
  IF Len(values) >= k THEN Iloc(values, -k) ELSE Iloc(values, -1)

\* s.loc[date] = v: every entry labelled date is overwritten; a label that is
\* not in the index is appended.
\* (Fault variant: writes the last entry, as .iloc[-1] = v would.)
LocSetLast(s, date, v) ==
  [index  |-> s.index,
   values |-> [j \in 1..Len(s.values) |->
                 IF j = Len(s.values) THEN v ELSE s.values[j]]]
LocSet(s, date, v) ==
  IF \E j \in 1..Len(s.index) : s.index[j] = date
  THEN [index  |-> s.index,
        values |-> [j \in 1..Len(s.values) |->
                      IF s.index[j] = date THEN v ELSE s.values[j]]]
  ELSE [index |-> Append(s.index, date), values |-> Append(s.values, v)]

NoFeatures == [lag1 |-> NaN, lag7 |-> NaN, lag30 |-> NaN, date |-> NaN]

InitForecast ==
  /\ \E n \in 0..MaxLen, t0 \in 0..(TicksPerDay - 1), shape \in Shapes :
       series = DailySeries(t0, n, shape)
  /\ \E off \in (0 - TicksPerDay)..((MaxHorizon + 1) * TicksPerDay - 1) :
       end_date = (IF Len(series.index) = 0 THEN 0
                   ELSE series.index[Len(series.index)]) + off
  /\ forecast_series = EmptySeries
  /\ last_date = NaN
  /\ forecast_days = 0
  /\ i = 0
  /\ features = NoFeatures
  /\ pred = NaN
  /\ preds = <<>>
  /\ fpc = "call"

\* Lines 164-168 on an empty series: index[-1] raises IndexError.
ForecastEmpty ==
  /\ fpc = "call"
  /\ Len(series.index) = 0
  /\ forecast_series' = series
  /\ fpc' = "IndexError"
  /\ UNCHANGED <<series, end_date, last_date, forecast_days, i, features,
                 pred, preds>>
  /\ UNCHANGED <<tvars, svars, hvars>>

\* Lines 164-168: copy, last date, number of days; nothing to do when <= 0.
ForecastEnter ==
  /\ fpc = "call"
  /\ Len(series.index) > 0
  /\ forecast_series' = series
  /\ last_date' = Iloc(series.index, -1)
  /\ forecast_days' = Days(end_date - last_date')
  /\ fpc' = IF forecast_days' <= 0 THEN "done" ELSE "loop"
  /\ UNCHANGED <<series, end_date, i, features, pred, preds>>
  /\ UNCHANGED <<tvars, svars, hvars>>

\* Lines 170-185: one iteration of the loop.
ForecastStep ==
  /\ fpc = "loop"
  /\ i < forecast_days
  /\ LET next_date == NextDate(last_date, i)
         lag1 == Iloc(forecast_series.values, -1)
         lag7 == Lag(forecast_series.values, 7)
         lag30 == Lag(forecast_series.values, 30)
     IN /\ features' = [lag1 |-> lag1, lag7 |-> lag7, lag30 |-> lag30,
                        date |-> next_date]
        /\ \E p \in PredValues :
             /\ pred' = p
             /\ preds' = Append(preds, p)
             /\ forecast_series' = LocSet(forecast_series, next_date, p)
  /\ i' = i + 1
  /\ UNCHANGED <<series, end_date, last_date, forecast_days, fpc>>
  /\ UNCHANGED <<tvars, svars, hvars>>

\* Line 187: range(forecast_days) is exhausted.
ForecastReturn ==
  /\ fpc = "loop"
  /\ i >= forecast_days
  /\ fpc' = "done"
  /\ UNCHANGED <<series, end_date, forecast_series, last_date, forecast_days,
                 i, features, pred, preds>>
  /\ UNCHANGED <<tvars, svars, hvars>>

IdleForecast ==
  /\ series = EmptySeries /\ end_date = 0 /\ forecast_series = EmptySeries
  /\ last_date = NaN /\ forecast_days = 0 /\ i = 0
  /\ features = NoFeatures /\ pred = NaN /\ preds = <<>> /\ fpc = "idle"

(***************************************************************************)
(* create_features and train_xgb_model (main.py 125-156)                   *)
(***************************************************************************)
MaxTrainLen == 33

\* series.shift(k): row j holds the value of row j - k; the first k rows hold
\* no value.
\* (Fault variant: the first k rows are filled with 0.)
ShiftZeroFill(values, k) ==
  [j \in 1..Len(values) |-> IF j <= k THEN 0 ELSE values[j - k]]
Shift(values, k) ==
  [j \in 1..Len(values) |-> IF j <= k THEN NaN ELSE values[j - k]]

\* index.dayofweek of a daily index (day 0 is taken to be a Monday).
DayOfWeek(day) == day % 7

\* create_features(series): one row per date of the series.
create_features(values, start) ==
  LET lag1 == Shift(values, 1)
      lag7 == Shift(values, 7)
      lag30 == Shift(values, 30)
  IN [j \in 1..Len(values) |->
        [date |-> start + j - 1, target |-> values[j], lag1 |-> lag1[j],
         lag7 |-> lag7[j], lag30 |-> lag30[j],
         dayofweek |-> DayOfWeek(start + j - 1)]]

RowHasNaN(row) ==
  \/ row.target = NaN \/ row.lag1 = NaN \/ row.lag7 = NaN \/ row.lag30 = NaN

\* DataFrame.dropna(): the rows with a missing value in any column go.
dropna(df) == SelectSeq(df, LAMBDA row : ~RowHasNaN(row))

\* The input: a daily series of n values, the value at position nan_at (if
\* any) missing.
TrainSeries(n, shape, nan_at) ==
  [j \in 1..n |-> IF j = nan_at THEN NaN ELSE ShapeValue(shape, j)]

InitTrain ==
  /\ \E n \in 0..MaxTrainLen, shape \in Shapes :
       \E nan_at \in 0..n : t_series = TrainSeries(n, shape, nan_at)
  /\ t_start \in 0..1
  /\ feat_df = <<>>
  /\ train_result = None
  /\ tpc = "call"

\* Line 139, first half: create_features(series).
TrainCreateFeatures ==
  /\ tpc = "call"
  /\ feat_df' = create_features(t_series, t_start)
  /\ tpc' = "features"
  /\ UNCHANGED <<t_series, t_start, train_result>>
  /\ UNCHANGED <<fvars, svars, hvars>>

\* Line 139, second half: .dropna().
TrainDropna ==
  /\ tpc = "features"
  /\ feat_df' = dropna(feat_df)
  /\ tpc' = "dropped"
  /\ UNCHANGED <<t_series, t_start, train_result>>
  /\ UNCHANGED <<fvars, svars, hvars>>

\* What lines 140-156 yield.  No line looks at the number of rows: with rows,
\* xgb.train returns a booster; without any, the outcome is whatever the
\* xgboost build does with an empty DMatrix, a booster fitted to nothing or
\* an error of the library.
TrainOutcomes(df) ==
  IF Len(df) > 0 THEN {"Booster"} ELSE {"Booster", "XGBoostError"}

TrainFit ==
  /\ tpc = "dropped"
  /\ train_result' \in TrainOutcomes(feat_df)
  /\ tpc' = "done"
  /\ UNCHANGED <<t_series, t_start, feat_df>>
  /\ UNCHANGED <<fvars, svars, hvars>>

IdleTrain ==
  /\ t_series = <<>> /\ t_start = 0 /\ feat_df = <<>>
  /\ train_result = None /\ tpc = "idle"

(***************************************************************************)
(* Pool records -> pivot -> Others -> shares -> HHI (main.py 15-47)        *)
(***************************************************************************)
MaxBlocks == 1

\* start_date, as a day number.
start_date == 1

major_pools == <<"Unknown", "AntPool", "ViaBTC", "F2Pool", "Mara Pool",
                 "SBI Crypto">>
MajorSet == {major_pools[k] : k \in 1..Len(major_pools)}
\* Pool labels of the input that are not major pools.
MinorPools == {"Foundry USA", "Binance Pool"}
AllPools == MajorSet \cup MinorPools
\* The columns of distribution_df: major_pools + ["Others"].
Buckets == MajorSet \cup {"Others"}
K == Len(major_pools) + 1

RECURSIVE SumOver(_, _)
SumOver(f, S) ==
  IF S = {} THEN 0
  ELSE LET x == CHOOSE y \in S : TRUE IN f[x] + SumOver(f, S \ {x})

\* A float that is a ratio of integers is kept exact, as [num, den]; 0/0 is
\* the NaN that pandas' division yields.
Frac(n, d) == [num |-> n, den |-> d]
NaNFrac == Frac(0, 0)
IsNaN(x) == x.den = 0

\* Lines 25-31: one record per date and pool, those before start_date dropped.
LoadRecords(ts) ==
  {r \in [date : DOMAIN ts, pool : AllPools, blocks : 0..MaxBlocks] :
     /\ r.pool \in DOMAIN ts[r.date]
     /\ r.blocks = ts[r.date][r.pool]
     /\ r.date >= start_date}

\* Lines 36-38: pivot_table(index="date", columns="pool", fill_value=0).
PivotTable(df) ==
  LET dates == {r.date : r \in df}
      cols == {r.pool : r \in df}
  IN [d \in dates |->
        [c \in cols |->
           IF \E r \in df : r.date = d /\ r.pool = c
           THEN (CHOOSE r \in df : r.date = d /\ r.pool = c).blocks
           ELSE 0]]

PivotColumns(pv) == UNION {DOMAIN pv[d] : d \in DOMAIN pv}

\* Lines 41-43: the columns that are not major pools are summed into "Others";
\* the table keeps the major pools and Others.
\* (Fault variant: the raw pool columns, not grouped.)
RawRow(row) == row
BucketRow(row) ==
  [b \in Buckets |->
     IF b = "Others" THEN SumOver(row, DOMAIN row \ MajorSet) ELSE row[b]]
Distribution(pv) == [d \in DOMAIN pv |-> BucketRow(pv[d])]

\* Line 46: each row divided by its sum.
RowTotal(row) == SumOver(row, DOMAIN row)
ShareRow(row) == [b \in DOMAIN row |-> Frac(row[b], RowTotal(row))]

\* Line 47: (shares**2).sum(axis=1).  sum skips NaN, and the sum of no value
\* is 0.0.  The shares of a row have one denominator, the row's total.
SumSquares(row) ==
  LET valid == {b \in DOMAIN row : ~IsNaN(row[b])}
      sq == [b \in valid |-> row[b].num * row[b].num]
  IN IF valid = {} THEN Frac(0, 1)
     ELSE LET den == row[CHOOSE b \in valid : TRUE].den
          IN Frac(SumOver(sq, valid), den * den)

\* The input: the pool counts of one date, any subset of the pools reported.
PoolCounts == UNION {[P -> 0..MaxBlocks] : P \in SUBSET AllPools}

InitShares ==
  /\ \E d \in (start_date - 1)..start_date, counts \in PoolCounts :
       pools_ts = [e \in {d} |-> counts]
  /\ pools_df = {}
  /\ pivot = <<>>
  /\ distribution_df = <<>>
  /\ shares = <<>>
  /\ hhi_series = <<>>
  /\ hhi_daily = <<>>
  /\ spc = "start"

SharesLoad ==
  /\ spc = "start"
  /\ pools_df' = LoadRecords(pools_ts)
  /\ spc' = "records"
  /\ UNCHANGED <<pools_ts, pivot, distribution_df, shares, hhi_series,
                 hhi_daily>>
  /\ UNCHANGED <<fvars, tvars, hvars>>

SharesPivot ==
  /\ spc = "records"
  /\ pivot' = PivotTable(pools_df)
  /\ spc' = "pivot"
  /\ UNCHANGED <<pools_ts, pools_df, distribution_df, shares, hhi_series,
                 hhi_daily>>
  /\ UNCHANGED <<fvars, tvars, hvars>>

\* Line 43 selects the major pools' columns: a major pool that no record
\* names is no column of the pivot, and the selection raises KeyError.
SharesOthers ==
  /\ spc = "pivot"
  /\ IF MajorSet \subseteq PivotColumns(pivot)
     THEN /\ distribution_df' = Distribution(pivot)
          /\ spc' = "distribution"
     ELSE /\ distribution_df' = distribution_df
          /\ spc' = "KeyError"
  /\ UNCHANGED <<pools_ts, pools_df, pivot, shares, hhi_series, hhi_daily>>
  /\ UNCHANGED <<fvars, tvars, hvars>>

SharesDivide ==
  /\ spc = "distribution"
  /\ shares' = [d \in DOMAIN distribution_df |-> ShareRow(distribution_df[d])]
  /\ spc' = "shares"
  /\ UNCHANGED <<pools_ts, pools_df, pivot, distribution_df, hhi_series,
                 hhi_daily>>
  /\ UNCHANGED <<fvars, tvars, hvars>>

SharesHhi ==
  /\ spc = "shares"
  /\ hhi_series' = [d \in DOMAIN shares |-> SumSquares(shares[d])]
  /\ spc' = "hhi"
  /\ UNCHANGED <<pools_ts, pools_df, pivot, distribution_df, shares,
                 hhi_daily>>
  /\ UNCHANGED <<fvars, tvars, hvars>>

(***************************************************************************)
(* hhi_daily = hhi_series.resample("D").mean().ffill() (main.py 48)        *)
(***************************************************************************)
MaxDay == 4

SetMin(S) == CHOOSE x \in S : \A y \in S : x <= y
SetMax(S) == CHOOSE x \in S : \A y \in S : x >= y

FracAdd(a, b) == Frac(a.num * b.den + b.num * a.den, a.den * b.den)

RECURSIVE FracSum(_)
FracSum(vals) ==
  IF Len(vals) = 1 THEN vals[1]
  ELSE FracAdd(vals[1], FracSum(Tail(vals)))

\* The mean of a bin; an empty bin has none.
Mean(vals) ==
  IF Len(vals) = 0 THEN NaNFrac
  ELSE LET t == FracSum(vals) IN Frac(t.num, t.den * Len(vals))

\* The values of the day's bin.  The index holds one time stamp per day.
Bin(s, d) == IF d \in DOMAIN s THEN <<s[d]>> ELSE <<>>

\* resample("D").mean(): one bin per calendar day from the first to the last.
ResampleMean(s) ==
  IF DOMAIN s = {} THEN <<>>
  ELSE [d \in SetMin(DOMAIN s)..SetMax(DOMAIN s) |-> Mean(Bin(s, d))]

\* ffill(): a missing value takes the last value before it, if there is one.
\* (Fault variant: takes the next value after it, as bfill() would.)
RECURSIVE BackFillAt(_, _)
BackFillAt(s, d) ==
  IF ~IsNaN(s[d]) THEN s[d]
  ELSE IF (d + 1) \notin DOMAIN s THEN NaNFrac
  ELSE BackFillAt(s, d + 1)

RECURSIVE FillAt(_, _)
FillAt(s, d) ==
  IF ~IsNaN(s[d]) THEN s[d]
  ELSE IF (d - 1) \notin DOMAIN s THEN NaNFrac
  ELSE FillAt(s, d - 1)

ffill(s) == [d \in DOMAIN s |-> FillAt(s, d)]

\* HHI values a date can have: none of the blocks (0), all K buckets equal
\* (1/K), two equal buckets (1/2), one bucket (1).
HhiSamples == {Frac(0, 1), Frac(1, K), Frac(1, 2), Frac(1, 1)}

InitDaily ==
  /\ \E D \in SUBSET (0..MaxDay) : hhi_series \in [D -> HhiSamples]
  /\ pools_ts = <<>>
  /\ pools_df = {}
  /\ pivot = <<>>
  /\ distribution_df = <<>>
  /\ shares = <<>>
  /\ hhi_daily = <<>>
  /\ spc = "hhi"

DailyResample ==
  /\ spc = "hhi"
  /\ hhi_daily' = ResampleMean(hhi_series)
  /\ spc' = "resampled"
  /\ UNCHANGED <<pools_ts, pools_df, pivot, distribution_df, shares,
                 hhi_series>>
  /\ UNCHANGED <<fvars, tvars, hvars>>

DailyFfill ==
  /\ spc = "resampled"
  /\ hhi_daily' = ffill(hhi_daily)
  /\ spc' = "done"
  /\ UNCHANGED <<pools_ts, pools_df, pivot, distribution_df, shares,
                 hhi_series>>
  /\ UNCHANGED <<fvars, tvars, hvars>>

IdleShares ==
  /\ pools_ts = <<>> /\ pools_df = {} /\ pivot = <<>>
  /\ distribution_df = <<>> /\ shares = <<>> /\ hhi_series = <<>>
  /\ hhi_daily = <<>> /\ spc = "idle"

(***************************************************************************)
(* http_get_text and http_get_json (data_fetch.py 39-90)                   *)
(***************************************************************************)
MaxRetries == 3
MaxBackoff == 3

\* What one pass through the try block can raise: requests.get and
\* raise_for_status in both functions, r.json() in http_get_json.
Exceptions(fn) ==
  {"ConnectionError", "HTTPError"}
    \cup (IF fn = "json" THEN {"JSONDecodeError"} ELSE {})

\* if attempt < max_retries: sleep, else: raise
\* (Fault variant: <= in place of <.)
SleepsUpToLast(att, retries) == att <= retries
SleepsBeforeNext(att, retries) == att < retries

InitHttp ==
  /\ h_fn \in {"text", "json"}
  /\ max_retries \in 0..MaxRetries
  /\ backoff_seconds \in 1..MaxBackoff
  /\ attempt = 1
  /\ requests = 0
  /\ sleeps = <<>>
  /\ outcomes = <<>>
  /\ last = None
  /\ h_result = None
  /\ hpc = "loop"

\* Lines 53-55 / 80-82: the request succeeds and its body is returned.
HttpSuccess ==
  /\ hpc = "loop"
  /\ attempt <= max_retries
  /\ requests' = requests + 1
  /\ outcomes' = Append(outcomes, "ok")
  /\ h_result' = IF h_fn = "text" THEN "r.text" ELSE "r.json()"
  /\ hpc' = "returned"
  /\ UNCHANGED <<h_fn, max_retries, backoff_seconds, attempt, sleeps, last>>
  /\ UNCHANGED <<fvars, tvars, svars>>

\* Lines 56-61 / 83-88: the attempt raises e.
HttpFailure ==
  /\ hpc = "loop"
  /\ attempt <= max_retries
  /\ \E e \in Exceptions(h_fn) :
       /\ requests' = requests + 1
       /\ outcomes' = Append(outcomes, e)
       /\ last' = e
       /\ IF SleepsBeforeNext(attempt, max_retries)
          THEN /\ sleeps' = Append(sleeps, backoff_seconds * attempt)
               /\ attempt' = attempt + 1
               /\ UNCHANGED <<h_result, hpc>>
          ELSE /\ h_result' = e
               /\ hpc' = "raised"
               /\ UNCHANGED <<sleeps, attempt>>
  /\ UNCHANGED <<h_fn, max_retries, backoff_seconds>>
  /\ UNCHANGED <<fvars, tvars, svars>>

\* Lines 62-63 / 89-90, after a loop that ran out: assert last; raise last.
\* With nothing in last the assert fails, or, when asserts are compiled out,
\* raise None is a TypeError.
HttpExhausted ==
  /\ hpc = "loop"
  /\ attempt > max_retries
  /\ IF last = None
     THEN h_result' \in {"AssertionError", "TypeError"}
     ELSE h_result' = last
  /\ hpc' = "raised"
  /\ UNCHANGED <<h_fn, max_retries, backoff_seconds, attempt, requests,
                 sleeps, outcomes, last>>
  /\ UNCHANGED <<fvars, tvars, svars>>

IdleHttp ==
  /\ h_fn = "text" /\ max_retries = 0 /\ backoff_seconds = 0 /\ attempt = 1
  /\ requests = 0 /\ sleeps = <<>> /\ outcomes = <<>> /\ last = None
  /\ h_result = None /\ hpc = "idle"

(***************************************************************************)
(* Specifications                                                          *)
(***************************************************************************)
NextForecast ==
  \/ ForecastEmpty
  \/ ForecastEnter
  \/ ForecastStep
  \/ ForecastReturn

StartForecast == InitForecast /\ IdleTrain /\ IdleShares /\ IdleHttp

SpecForecast == StartForecast /\ [][NextForecast]_vars

NextTrain ==
  \/ TrainCreateFeatures
  \/ TrainDropna
  \/ TrainFit

StartTrain == IdleForecast /\ InitTrain /\ IdleShares /\ IdleHttp

SpecTrain == StartTrain /\ [][NextTrain]_vars

NextShares ==
  \/ SharesLoad
  \/ SharesPivot
  \/ SharesOthers
  \/ SharesDivide
  \/ SharesHhi
  \/ DailyResample
  \/ DailyFfill

StartShares == IdleForecast /\ IdleTrain /\ InitShares /\ IdleHttp

SpecShares == StartShares /\ [][NextShares]_vars

NextDaily ==
  \/ DailyResample
  \/ DailyFfill

StartDaily == IdleForecast /\ IdleTrain /\ InitDaily /\ IdleHttp

SpecDaily == StartDaily /\ [][NextDaily]_vars

NextHttp ==
  \/ HttpSuccess
  \/ HttpFailure
  \/ HttpExhausted

StartHttp == IdleForecast /\ IdleTrain /\ IdleShares /\ InitHttp

SpecHttp == StartHttp /\ [][NextHttp]_vars

(***************************************************************************)
(* Claims about forecast_with_xgb (SpecForecast)                           *)
(***************************************************************************)
HistoryLen == Len(series.index)
HistoryLast == series.index[HistoryLen]

\* (end_date - L).days, said without Days: the whole days that fit.
Horizon ==
  CHOOSE h \in (0 - 2)..(MaxHorizon + 2) :
    /\ h * TicksPerDay <= end_date - HistoryLast
    /\ end_date - HistoryLast < (h + 1) * TicksPerDay

\* C1: for a non-empty daily history with last date L and H = (E - L).days > 0
\* the loop makes exactly H transitions and stops, and the returned series
\* holds one value for each of the days L+1 .. L+H after the history, in
\* order, without gap or duplicate.
C1_ForecastCoversHorizon ==
  (HistoryLen > 0 /\ fpc \in {"loop", "done"} /\ Horizon > 0) =>
    /\ i <= Horizon
    /\ Len(preds) = i
    /\ fpc = "done" =>
         /\ i = Horizon
         /\ Len(forecast_series.index) = HistoryLen + Horizon
         /\ Len(forecast_series.values) = HistoryLen + Horizon
         /\ \A k \in 1..Horizon :
              forecast_series.index[HistoryLen + k]
                = HistoryLast + k * TicksPerDay
         /\ \A a, b \in 1..Len(forecast_series.index) :
              a # b => forecast_series.index[a] # forecast_series.index[b]

C1_Witness ==
  /\ fpc = "done"
  /\ HistoryLen >= 30
  /\ i >= 3
  /\ (end_date - last_date) % TicksPerDay # 0

\* C2: at every step of the loop and in the returned series, every date of
\* the input history keeps the input's value and every earlier prediction
\* keeps its value: the pseudo-history grows by one new date per step.
C2_HistoryNeverOverwritten ==
  fpc \in {"loop", "done"} =>
    /\ Len(forecast_series.index) = HistoryLen + i
    /\ Len(forecast_series.values) = HistoryLen + i
    /\ \A k \in 1..HistoryLen :
         /\ forecast_series.index[k] = series.index[k]
         /\ forecast_series.values[k] = series.values[k]
    /\ Len(preds) = i
    /\ \A k \in 1..Len(preds) :
         forecast_series.values[HistoryLen + k] = preds[k]

C2_Witness ==
  /\ fpc = "done"
  /\ HistoryLen >= 1
  /\ Len(preds) >= 2
  /\ preds[1] # preds[2]

\* C3: with an end date at or before the last date of the history, that is
\* (end_date - last_date).days <= 0, the call predicts nothing, raises
\* nothing and returns the dates and values of the input.
C3_NoOpAtOrBeforeLastDate ==
  (HistoryLen > 0 /\ fpc # "call" /\ end_date - HistoryLast < TicksPerDay) =>
    /\ fpc = "done"
    /\ preds = <<>>
    /\ forecast_series = series

C3_Witness ==
  /\ fpc = "done"
  /\ HistoryLen > 0
  /\ end_date < HistoryLast
  /\ forecast_series = series

\* C4: in each transition, with the pseudo-history of length n before it,
\* lag1 is its last value, lag7 its 7th value from the end when n >= 7 and
\* lag1 otherwise, lag30 its 30th value from the end when n >= 30 and lag1
\* otherwise; and the value one step predicts is the lag1 of the next step.
C4_StepLags ==
  (i' = i + 1) =>
    LET v == forecast_series.values
        n == Len(v)
    IN /\ features'.lag1 = v[n]
       /\ features'.lag7 = (IF n >= 7 THEN v[n - 6] ELSE v[n])
       /\ features'.lag30 = (IF n >= 30 THEN v[n - 29] ELSE v[n])
       /\ i >= 1 => features'.lag1 = pred

\* C4: every step of the specification that is a transition of the loop
\* computes its lags as C4_StepLags says.
C4_LagsInEveryTransition == [][C4_StepLags]_vars

C4_Witness ==
  /\ i >= 2
  /\ Len(forecast_series.values) >= 32
  /\ features.lag1 = preds[i - 1]
  /\ features.lag7 # features.lag1
  /\ features.lag30 # features.lag7

(***************************************************************************)
(* Claims about create_features and train_xgb_model (SpecTrain)            *)
(***************************************************************************)
NoMissingValue == \A j \in 1..Len(t_series) : t_series[j] # NaN

\* C5: when the feature table has no row left after the rows without full
\* lag history are dropped, train_xgb_model fails with the "insufficient
\* history" condition and returns no model.
C5_EmptyTableRejected ==
  (tpc = "done" /\ Len(feat_df) = 0) => train_result = "InsufficientHistory"

\* C8: for a gap-free daily series of N values, none missing, the training
\* table has max(0, N - 30) rows: the dates with 30 earlier days, in order,
\* each with the values 1, 7 and 30 days earlier as lag1, lag7 and lag30.
C8_FeatureRows ==
  (tpc \in {"dropped", "done"} /\ NoMissingValue) =>
    /\ Len(feat_df) = Max(0, Len(t_series) - 30)
    /\ \A r \in 1..Len(feat_df) :
         /\ feat_df[r].date = t_start + 30 + r - 1
         /\ feat_df[r].target = t_series[30 + r]
         /\ feat_df[r].lag1 = t_series[30 + r - 1]
         /\ feat_df[r].lag7 = t_series[30 + r - 7]
         /\ feat_df[r].lag30 = t_series[r]

C8_Witness ==
  /\ tpc = "dropped"
  /\ NoMissingValue
  /\ Len(t_series) >= 32
  /\ Len(feat_df) = Len(t_series) - 30
  /\ feat_df[2].lag30 = t_series[2]
  /\ feat_df[2].lag30 # feat_df[2].lag7

(***************************************************************************)
(* Claims about the shares and the HHI (SpecShares)                        *)
(***************************************************************************)
\* The blocks the input reports for a date, over all pools.
DateTotal(d) == SumOver(pools_ts[d], DOMAIN pools_ts[d])

\* The dates of the input that reach the pivot, with no block at all.
ZeroTotalDates ==
  {d \in DOMAIN pools_ts :
     d >= start_date /\ DOMAIN pools_ts[d] # {} /\ DateTotal(d) = 0}

\* C6: a date whose blocks total zero over all buckets is no date of the
\* share table, of the HHI series or of the daily HHI series.
C6_ZeroTotalExcluded ==
  spc = "done" =>
    \A d \in ZeroTotalDates :
      /\ d \notin DOMAIN shares
      /\ d \notin DOMAIN hhi_series
      /\ d \notin DOMAIN hhi_daily

\* C7, as claimed: the HHI of a date, the sum over the K buckets of
\* (bucket count / date total)^2, is strictly above 1/K and at most 1.  The
\* claimed value is a ratio by the date's total, so the statement is taken on
\* the dates that have blocks (a date without any is C6's).
C7_HhiAboveOneOverK ==
  spc \in {"hhi", "resampled", "done"} =>
    \A d \in DOMAIN hhi_series :
      DateTotal(d) > 0 =>
        /\ hhi_series[d].den < K * hhi_series[d].num
        /\ hhi_series[d].num <= hhi_series[d].den

\* C7, amended: the HHI of a date with blocks lies in [1/K, 1], and it is 1/K
\* exactly when the K buckets hold equal counts; the HHI of a date without any
\* block is 0.
C7_HhiRange ==
  spc \in {"hhi", "resampled", "done"} =>
    \A d \in DOMAIN hhi_series :
      LET h == hhi_series[d]
      IN IF DateTotal(d) = 0 THEN h.num = 0 /\ h.den = 1
         ELSE /\ h.den = DateTotal(d) * DateTotal(d)
              /\ h.den <= K * h.num
              /\ h.num <= h.den
              /\ (h.den = K * h.num) <=>
                   (\A a, b \in DOMAIN distribution_df[d] :
                      distribution_df[d][a] = distribution_df[d][b])

C7_Witness ==
  /\ spc = "hhi"
  /\ \E d \in DOMAIN hhi_series :
       /\ DateTotal(d) = K
       /\ hhi_series[d].den = K * hhi_series[d].num
       /\ distribution_df[d]["Others"] = 1

(***************************************************************************)
(* Claims about the daily resampling (SpecDaily)                           *)
(***************************************************************************)
\* C9: the daily series has one value for every calendar day from the first
\* to the last source date; a day of the source keeps its value, a day that
\* is not in the source takes the value of the latest earlier source day.
C9_DailyForwardFill ==
  (spc = "done" /\ DOMAIN hhi_series # {}) =>
    /\ DOMAIN hhi_daily
         = SetMin(DOMAIN hhi_series)..SetMax(DOMAIN hhi_series)
    /\ \A d \in DOMAIN hhi_daily :
         /\ ~IsNaN(hhi_daily[d])
         /\ hhi_daily[d]
              = hhi_series[SetMax({e \in DOMAIN hhi_series : e <= d})]

C9_Witness ==
  /\ spc = "done"
  /\ \E d \in DOMAIN hhi_daily :
       /\ d \notin DOMAIN hhi_series
       /\ (d - 1) \in DOMAIN hhi_series
       /\ (d + 1) \in DOMAIN hhi_series
       /\ hhi_series[d - 1] # hhi_series[d + 1]
       /\ hhi_daily[d] = hhi_series[d - 1]

(***************************************************************************)
(* Claims about the HTTP helpers (SpecHttp)                                *)
(***************************************************************************)
Failed(k) == outcomes[k] # "ok"

\* C10: at most max_retries requests are made; the first success is returned
\* at once; the k-th failed attempt is followed by a sleep of
\* backoff_seconds * k exactly when another attempt follows it; and when all
\* max_retries attempts fail, the exception of the last one is raised.
C10_RetryDiscipline ==
  hpc # "idle" =>
    /\ requests <= max_retries
    /\ Len(outcomes) = requests
    /\ \A k \in 1..(requests - 1) : Failed(k)
    /\ hpc = "loop" => (\A k \in 1..requests : Failed(k)) /\ attempt = requests + 1
    /\ hpc = "returned" =>
         /\ requests >= 1
         /\ outcomes[requests] = "ok"
         /\ h_result \in {"r.text", "r.json()"}
    /\ (hpc = "raised" /\ max_retries >= 1) =>
         /\ requests = max_retries
         /\ Failed(requests)
         /\ h_result = outcomes[requests]
    /\ Len(sleeps)
         = (IF hpc = "loop" THEN requests ELSE Max(0, requests - 1))
    /\ \A k \in 1..Len(sleeps) : sleeps[k] = backoff_seconds * k
    /\ (requests = max_retries /\ requests >= 1 /\ Failed(requests)) =>
         hpc = "raised"

C10_Witness ==
  /\ hpc = "raised"
  /\ requests = 3
  /\ Len(sleeps) = 2
  /\ outcomes[1] # outcomes[3]
  /\ h_result = outcomes[3]

====
